---- MODULE Spec2Model ----
(***************************************************************************)
(* Model of the boxing application: the persisted boxers table             *)
(* (boxing/models/boxers_model.py) and the two-slot ring with its fight    *)
(* algorithm (boxing/models/ring_model.py).                                *)
(*                                                                         *)
(* Numbers with a fractional part are kept in fixed point:                 *)
(*   - a fighting skill and a skill gap are in tenths (reach is a whole    *)
(*     number of inches, so reach / 10 is a whole number of tenths);       *)
(*   - a random draw and a probability are in thousandths.                 *)
(*                                                                         *)
(* Each operation is an operator from the state it reads to the exception  *)
(* it raises and the state it leaves; the actions apply the operators.     *)
(* An operator named op_mut_fault is op with one fault seeded; it is used  *)
(* only to show that a property depends on op.                             *)
(***************************************************************************)
EXTENDS Integers, Sequences, FiniteSets, TLC

VARIABLES boxers, ring, last

vars == <<boxers, ring, last>>

(***************************************************************************)
(* Bounds of the model.                                                    *)
(***************************************************************************)
\* Largest id the table hands out.
MaxId == 2
\* Largest fight count a row reaches.
MaxFights == 1
\* Longest list a caller makes of a list it was handed.
MaxHeld == 3

(***************************************************************************)
(* Inputs the callers draw from.                                           *)
(***************************************************************************)
Ids == 1..MaxId
Results == {"win", "loss", "draw"}
\* Draws of the random source, in thousandths.
Draws == {0, 499, 500, 800, 999}

\* Arguments of create_boxer when the whole application runs.
Names == {"Al", "Bo"}
Weights == {125}
Heights == {70}
Reaches == {-5, 75}
Ages == {30}

\* Arguments of create_boxer when its validation is exercised: each field
\* at and around the edge of its valid range.
EdgeNames == {"Al", "Bo"}
EdgeWeights == {120, 124, 125}
EdgeHeights == {-1, 0, 70}
EdgeReaches == {-5, 0, 75}
EdgeAges == {17, 18, 40, 45}

(***************************************************************************)
(* Outcomes of a call: the exception it raised, or NoError.                *)
(***************************************************************************)
NoError == "none"
InvalidWeight == "ValueError: Invalid weight"
InvalidHeight == "ValueError: Invalid height"
InvalidReach == "ValueError: Invalid reach"
InvalidAge == "ValueError: Invalid age"
AlreadyExists == "ValueError: Boxer with name already exists"
NotFound == "ValueError: Boxer with ID not found"
InvalidResult == "ValueError: Invalid result"
InvalidSortBy == "ValueError: Invalid sort_by parameter"
Full == "ValueError: Ring is full, cannot add more boxers."
InsufficientParticipants == "ValueError: There must be two boxers to start a fight."
NotABoxerError == "TypeError: Invalid type: Expected 'Boxer'"
SourceUnavailable == "RuntimeError: Request to random.org failed"
InvalidSample == "ValueError: Invalid response from random.org"

NoName == "<none>"

(***************************************************************************)
(* The boxers table: a function from the ids in use to rows.               *)
(***************************************************************************)
EmptyTable == [i \in {} |-> 0]

Row(name, weight, height, reach, age) ==
    [name |-> name, weight |-> weight, height |-> height, reach |-> reach,
     age |-> age, fights |-> 0, wins |-> 0]

Insert(db, id, row) ==
    [i \in (DOMAIN db) \cup {id} |-> IF i = id THEN row ELSE db[i]]

Remove(db, id) == [i \in (DOMAIN db) \ {id} |-> db[i]]

NameTaken(db, name) == \E i \in DOMAIN db : db[i].name = name

\* The ids an insert may be given: larger than every id in the table (the
\* table assigns the id; a new row's counters start at 0).
FreshIds(db) == {i \in Ids : \A j \in DOMAIN db : j < i}

(***************************************************************************)
(* get_weight_class                                                        *)
(***************************************************************************)
get_weight_class_mut_strict(weight) ==
    IF weight > 203 THEN "HEAVYWEIGHT"
    ELSE IF weight > 166 THEN "MIDDLEWEIGHT"
    ELSE IF weight > 133 THEN "LIGHTWEIGHT"
    ELSE IF weight > 125 THEN "FEATHERWEIGHT"
    ELSE InvalidWeight

get_weight_class(weight) ==
    IF weight >= 203 THEN "HEAVYWEIGHT"
    ELSE IF weight >= 166 THEN "MIDDLEWEIGHT"
    ELSE IF weight >= 133 THEN "LIGHTWEIGHT"
    ELSE IF weight >= 125 THEN "FEATHERWEIGHT"
    ELSE InvalidWeight

(***************************************************************************)
(* create_boxer: the four checks in order, then the name check, then the   *)
(* insert under the id the table assigns.                                  *)
(***************************************************************************)
validate_boxer_mut_age_first(weight, height, reach, age) ==
    IF ~(18 <= age /\ age <= 40) THEN InvalidAge
    ELSE IF weight < 125 THEN InvalidWeight
    ELSE IF height <= 0 THEN InvalidHeight
    ELSE IF reach <= 0 THEN InvalidReach
    ELSE NoError

validate_boxer(weight, height, reach, age) ==
    IF weight < 125 THEN InvalidWeight
    ELSE IF height <= 0 THEN InvalidHeight
    ELSE IF reach <= 0 THEN InvalidReach
    ELSE IF ~(18 <= age /\ age <= 40) THEN InvalidAge
    ELSE NoError

create_boxer_mut_no_name_check(db, name, weight, height, reach, age, new_id) ==
    LET invalid == validate_boxer(weight, height, reach, age) IN
    IF invalid # NoError THEN [err |-> invalid, db |-> db]
    ELSE [err |-> NoError,
          db |-> Insert(db, new_id, Row(name, weight, height, reach, age))]

create_boxer(db, name, weight, height, reach, age, new_id) ==
    LET invalid == validate_boxer(weight, height, reach, age) IN
    IF invalid # NoError THEN [err |-> invalid, db |-> db]
    ELSE IF NameTaken(db, name) THEN [err |-> AlreadyExists, db |-> db]
    ELSE [err |-> NoError,
          db |-> Insert(db, new_id, Row(name, weight, height, reach, age))]

(***************************************************************************)
(* delete_boxer                                                            *)
(***************************************************************************)
delete_boxer(db, boxer_id) ==
    IF boxer_id \notin DOMAIN db THEN [err |-> NotFound, db |-> db]
    ELSE [err |-> NoError, db |-> Remove(db, boxer_id)]

(***************************************************************************)
(* update_boxer_stats: the result check, then the lookup, then the update. *)
(***************************************************************************)
update_boxer_stats_mut_loss_counts_win(db, boxer_id, result) ==
    IF result \notin {"win", "loss"} THEN [err |-> InvalidResult, db |-> db]
    ELSE IF boxer_id \notin DOMAIN db THEN [err |-> NotFound, db |-> db]
    ELSE [err |-> NoError,
          db |-> [db EXCEPT ![boxer_id].fights = @ + 1,
                            ![boxer_id].wins = @ + 1]]

update_boxer_stats_mut_no_checks(db, boxer_id, result) ==
    IF boxer_id \notin DOMAIN db
    THEN [err |-> NotFound,
          db |-> [i \in DOMAIN db |-> [db[i] EXCEPT !.fights = @ + 1]]]
    ELSE IF result = "win"
    THEN [err |-> NoError,
          db |-> [db EXCEPT ![boxer_id].fights = @ + 1,
                            ![boxer_id].wins = @ + 1]]
    ELSE [err |-> IF result = "loss" THEN NoError ELSE InvalidResult,
          db |-> [db EXCEPT ![boxer_id].fights = @ + 1]]

update_boxer_stats_mut_win_skips_fights(db, boxer_id, result) ==
    IF result \notin {"win", "loss"} THEN [err |-> InvalidResult, db |-> db]
    ELSE IF boxer_id \notin DOMAIN db THEN [err |-> NotFound, db |-> db]
    ELSE IF result = "win"
    THEN [err |-> NoError, db |-> [db EXCEPT ![boxer_id].wins = @ + 1]]
    ELSE [err |-> NoError,
          db |-> [db EXCEPT ![boxer_id].fights = @ + 1]]

update_boxer_stats(db, boxer_id, result) ==
    IF result \notin {"win", "loss"} THEN [err |-> InvalidResult, db |-> db]
    ELSE IF boxer_id \notin DOMAIN db THEN [err |-> NotFound, db |-> db]
    ELSE IF result = "win"
    THEN [err |-> NoError,
          db |-> [db EXCEPT ![boxer_id].fights = @ + 1,
                            ![boxer_id].wins = @ + 1]]
    ELSE [err |-> NoError,
          db |-> [db EXCEPT ![boxer_id].fights = @ + 1]]

(***************************************************************************)
(* get_leaderboard: the rows with fights > 0, in an order the ORDER BY     *)
(* clause allows (rows with equal keys come in any order), each made into  *)
(* a dictionary.  The sort_by check comes before the query is run.         *)
(***************************************************************************)
\* WHERE fights > 0
leaderboard_ids(db) == {i \in DOMAIN db : db[i].fights > 0}

\* ORDER BY wins DESC, ORDER BY win_pct DESC with win_pct = wins * 1.0 /
\* fights: the row of i may come before the row of j.
order_by_mut_ascending(db, sort_by, i, j) ==
    IF sort_by = "wins" THEN db[i].wins <= db[j].wins
    ELSE db[i].wins * db[j].fights <= db[j].wins * db[i].fights

order_by(db, sort_by, i, j) ==
    IF sort_by = "wins" THEN db[i].wins >= db[j].wins
    ELSE db[i].wins * db[j].fights >= db[j].wins * db[i].fights

\* The orders in which the query may return the rows.
QueryOrders(db, sort_by) ==
    LET ids == leaderboard_ids(db)
        n == Cardinality(ids)
    IN {o \in [1..n -> ids] :
            /\ \A k, l \in 1..n : o[k] = o[l] => k = l
            /\ \A k, l \in 1..n : k < l => order_by(db, sort_by, o[k], o[l])}

\* round(win_pct * 100, 1), in tenths of a percent (no ratio of counts
\* below 16 fights falls on a half).
win_pct_tenths(wins, fights) == (2000 * wins + fights) \div (2 * fights)

leaderboard_entry(db, i) ==
    [id |-> i, name |-> db[i].name, weight |-> db[i].weight,
     height |-> db[i].height, reach |-> db[i].reach, age |-> db[i].age,
     weight_class |-> get_weight_class(db[i].weight),
     fights |-> db[i].fights, wins |-> db[i].wins,
     win_pct |-> win_pct_tenths(db[i].wins, db[i].fights)]

get_leaderboard(db, sort_by, order) ==
    IF sort_by \notin {"win_pct", "wins"}
    THEN [err |-> InvalidSortBy, leaderboard |-> <<>>]
    ELSE [err |-> NoError,
          leaderboard |-> [k \in 1..Len(order) |-> leaderboard_entry(db, order[k])]]

(***************************************************************************)
(* Boxer: the in-memory value the callers hold; its weight class is        *)
(* assigned when it is constructed.                                        *)
(***************************************************************************)
Boxer(id, name, weight, height, reach, age) ==
    [type |-> "Boxer", id |-> id, name |-> name, weight |-> weight,
     height |-> height, reach |-> reach, age |-> age,
     weight_class |-> get_weight_class(weight)]

\* A value that is not a Boxer (a string handed to enter_ring).
NotABoxer ==
    [type |-> "str", id |-> 0, name |-> "NOT A BOXER", weight |-> 0,
     height |-> 0, reach |-> 0, age |-> 0, weight_class |-> "-"]

get_boxer_by_id(db, boxer_id) ==
    LET row == db[boxer_id] IN
    Boxer(boxer_id, row.name, row.weight, row.height, row.reach, row.age)

(***************************************************************************)
(* RingModel                                                               *)
(***************************************************************************)
EmptyRing == <<>>

enter_ring_mut_no_capacity_check(rg, boxer) ==
    IF boxer.type # "Boxer" THEN [err |-> NotABoxerError, ring |-> rg]
    ELSE [err |-> NoError, ring |-> Append(rg, boxer)]

enter_ring_mut_replace_when_full(rg, boxer) ==
    IF boxer.type # "Boxer" THEN [err |-> NotABoxerError, ring |-> rg]
    ELSE IF Len(rg) >= 2 THEN [err |-> Full, ring |-> <<rg[2], boxer>>]
    ELSE [err |-> NoError, ring |-> Append(rg, boxer)]

enter_ring(rg, boxer) ==
    IF boxer.type # "Boxer" THEN [err |-> NotABoxerError, ring |-> rg]
    ELSE IF Len(rg) >= 2 THEN [err |-> Full, ring |-> rg]
    ELSE [err |-> NoError, ring |-> Append(rg, boxer)]

clear_ring_mut_keep_first(rg) == IF Len(rg) = 2 THEN <<rg[1]>> ELSE EmptyRing

clear_ring_mut_only_full(rg) == IF Len(rg) = 2 THEN EmptyRing ELSE rg

clear_ring(rg) == IF rg = EmptyRing THEN rg ELSE EmptyRing

get_boxers_mut_newest_first(rg) == [i \in 1..Len(rg) |-> rg[Len(rg) + 1 - i]]

get_boxers(rg) == rg

\* In tenths.
get_fighting_skill_mut_age_inclusive(boxer) ==
    LET age_modifier == IF boxer.age <= 25 THEN -1
                        ELSE IF boxer.age >= 35 THEN -2 ELSE 0
    IN 10 * (boxer.weight * Len(boxer.name)) + boxer.reach + 10 * age_modifier

\* In tenths.
get_fighting_skill(boxer) ==
    LET age_modifier == IF boxer.age < 25 THEN -1
                        ELSE IF boxer.age > 35 THEN -2 ELSE 0
    IN 10 * (boxer.weight * Len(boxer.name)) + boxer.reach + 10 * age_modifier

Abs(x) == IF x < 0 THEN -x ELSE x

\* 1 / (1 + e^(-d/10)) for d = 0, 1, ..., 69 tenths, in thousandths rounded
\* up; from 70 tenths on the value exceeds 0.999.
LogisticTable ==
    <<500, 525, 550, 575, 599, 623, 646, 669, 690, 711,
      732, 751, 769, 786, 803, 818, 833, 846, 859, 870,
      881, 891, 901, 909, 917, 925, 931, 938, 943, 948,
      953, 957, 961, 965, 968, 971, 974, 976, 979, 981,
      983, 984, 986, 987, 988, 990, 991, 991, 992, 993,
      994, 994, 995, 996, 996, 996, 997, 997, 997, 998,
      998, 998, 998, 999, 999, 999, 999, 999, 999, 999>>

\* The logistic transform of a gap of delta tenths, in thousandths rounded
\* up: a draw of r thousandths is below the probability exactly when
\* r < normalized_delta(delta).
normalized_delta(delta) ==
    IF delta < Len(LogisticTable) THEN LogisticTable[delta + 1] ELSE 1000

boxer_1_wins_mut_signed_delta(skill_1, skill_2, random_number) ==
    LET delta == skill_1 - skill_2
        p == IF delta >= 0 THEN normalized_delta(delta)
             ELSE 1000 - normalized_delta(-delta) + 1
    IN random_number < p

boxer_1_wins_mut_favours_stronger(skill_1, skill_2, random_number) ==
    LET delta == skill_1 - skill_2
    IN IF delta >= 0 THEN random_number < normalized_delta(delta)
       ELSE ~(random_number < normalized_delta(-delta))

\* Lines 55-60 of fight: the gap, the probability, the comparison.
boxer_1_wins(skill_1, skill_2, random_number) ==
    LET delta == Abs(skill_1 - skill_2)
    IN random_number < normalized_delta(delta)

\* What a handler did, in order: the calls it made to its collaborators.
Ev(ev, id, result) == [ev |-> ev, id |-> id, result |-> result]
EvRandom == Ev("get_random", 0, "-")
EvClear == Ev("clear_ring", 0, "-")
EvUpdate(id, result) == Ev("update_boxer_stats", id, result)

\* The random source: a draw in thousandths, or a failure.
GoodDraw(v) == [err |-> NoError, value |-> v]
BadDraw(e) == [err |-> e, value |-> -1]
RandomOutcomes ==
    {GoodDraw(v) : v \in Draws} \cup {BadDraw(SourceUnavailable), BadDraw(InvalidSample)}

FightResult(err, ret, db, rg, trace, skills, r) ==
    [err |-> err, ret |-> ret, db |-> db, ring |-> rg, trace |-> trace,
     skills |-> skills, r |-> r]

fight_mut_loser_first(db, rg, draw) ==
    IF Len(rg) < 2
    THEN FightResult(InsufficientParticipants, NoName, db, rg, <<>>, <<>>, -1)
    ELSE
    LET boxer_1 == get_boxers(rg)[1]
        boxer_2 == get_boxers(rg)[2]
        skills == <<get_fighting_skill(boxer_1), get_fighting_skill(boxer_2)>>
    IN
    IF draw.err # NoError
    THEN FightResult(draw.err, NoName, db, rg, <<EvRandom>>, skills, -1)
    ELSE
    LET first == boxer_1_wins(skills[1], skills[2], draw.value)
        winner == IF first THEN boxer_1 ELSE boxer_2
        loser == IF first THEN boxer_2 ELSE boxer_1
        u1 == update_boxer_stats(db, loser.id, "loss")
        u2 == update_boxer_stats(u1.db, winner.id, "win")
        t1 == <<EvRandom, EvUpdate(loser.id, "loss")>>
        t2 == Append(t1, EvUpdate(winner.id, "win"))
    IN IF u1.err # NoError
       THEN FightResult(u1.err, NoName, u1.db, rg, t1, skills, draw.value)
       ELSE IF u2.err # NoError
       THEN FightResult(u2.err, NoName, u2.db, rg, t2, skills, draw.value)
       ELSE FightResult(NoError, winner.name, u2.db, clear_ring(rg),
                        Append(t2, EvClear), skills, draw.value)

fight_mut_no_length_check(db, rg, draw) ==
    LET absent == NotABoxer
        boxer_1 == IF Len(rg) >= 1 THEN get_boxers(rg)[1] ELSE absent
        boxer_2 == IF Len(rg) >= 2 THEN get_boxers(rg)[2] ELSE absent
        skills == <<get_fighting_skill(boxer_1), get_fighting_skill(boxer_2)>>
    IN
    IF draw.err # NoError
    THEN FightResult(draw.err, NoName, db, rg, <<EvRandom>>, skills, -1)
    ELSE
    LET first == boxer_1_wins(skills[1], skills[2], draw.value)
        winner == IF first THEN boxer_1 ELSE boxer_2
        loser == IF first THEN boxer_2 ELSE boxer_1
        u1 == update_boxer_stats(db, winner.id, "win")
        u2 == update_boxer_stats(u1.db, loser.id, "loss")
        t1 == <<EvRandom, EvUpdate(winner.id, "win")>>
        t2 == Append(t1, EvUpdate(loser.id, "loss"))
    IN IF u1.err # NoError
       THEN FightResult(u1.err, NoName, u1.db, rg, t1, skills, draw.value)
       ELSE IF u2.err # NoError
       THEN FightResult(u2.err, NoName, u2.db, rg, t2, skills, draw.value)
       ELSE FightResult(NoError, winner.name, u2.db, clear_ring(rg),
                        Append(t2, EvClear), skills, draw.value)

fight_mut_clear_first(db, rg, draw) ==
    IF Len(rg) < 2
    THEN FightResult(InsufficientParticipants, NoName, db, rg, <<>>, <<>>, -1)
    ELSE
    LET boxer_1 == get_boxers(rg)[1]
        boxer_2 == get_boxers(rg)[2]
        skills == <<get_fighting_skill(boxer_1), get_fighting_skill(boxer_2)>>
    IN
    IF draw.err # NoError
    THEN FightResult(draw.err, NoName, db, rg, <<EvRandom>>, skills, -1)
    ELSE
    LET first == boxer_1_wins(skills[1], skills[2], draw.value)
        winner == IF first THEN boxer_1 ELSE boxer_2
        loser == IF first THEN boxer_2 ELSE boxer_1
        u1 == update_boxer_stats(db, winner.id, "win")
        u2 == update_boxer_stats(u1.db, loser.id, "loss")
        t1 == <<EvRandom, EvClear, EvUpdate(winner.id, "win")>>
        t2 == Append(t1, EvUpdate(loser.id, "loss"))
    IN IF u1.err # NoError
       THEN FightResult(u1.err, NoName, u1.db, clear_ring(rg), t1, skills, draw.value)
       ELSE IF u2.err # NoError
       THEN FightResult(u2.err, NoName, u2.db, clear_ring(rg), t2, skills, draw.value)
       ELSE FightResult(NoError, winner.name, u2.db, clear_ring(rg),
                        t2, skills, draw.value)

fight_mut_rollback(db, rg, draw) ==
    IF Len(rg) < 2
    THEN FightResult(InsufficientParticipants, NoName, db, rg, <<>>, <<>>, -1)
    ELSE
    LET boxer_1 == get_boxers(rg)[1]
        boxer_2 == get_boxers(rg)[2]
        skills == <<get_fighting_skill(boxer_1), get_fighting_skill(boxer_2)>>
    IN
    IF draw.err # NoError
    THEN FightResult(draw.err, NoName, db, rg, <<EvRandom>>, skills, -1)
    ELSE
    LET first == boxer_1_wins(skills[1], skills[2], draw.value)
        winner == IF first THEN boxer_1 ELSE boxer_2
        loser == IF first THEN boxer_2 ELSE boxer_1
        u1 == update_boxer_stats(db, winner.id, "win")
        u2 == update_boxer_stats(u1.db, loser.id, "loss")
        t1 == <<EvRandom, EvUpdate(winner.id, "win")>>
        t2 == Append(t1, EvUpdate(loser.id, "loss"))
    IN IF u1.err # NoError
       THEN FightResult(u1.err, NoName, u1.db, rg, t1, skills, draw.value)
       ELSE IF u2.err # NoError
       THEN FightResult(u2.err, NoName, db, rg, t2, skills, draw.value)
       ELSE FightResult(NoError, winner.name, u2.db, clear_ring(rg),
                        Append(t2, EvClear), skills, draw.value)

fight_mut_retry_draw(db, rg, draw) ==
    IF Len(rg) < 2
    THEN FightResult(InsufficientParticipants, NoName, db, rg, <<>>, <<>>, -1)
    ELSE
    LET boxer_1 == get_boxers(rg)[1]
        boxer_2 == get_boxers(rg)[2]
        skills == <<get_fighting_skill(boxer_1), get_fighting_skill(boxer_2)>>
    IN
    IF draw.err # NoError
    THEN FightResult(draw.err, NoName, db, rg, <<EvRandom, EvRandom>>, skills, -1)
    ELSE
    LET first == boxer_1_wins(skills[1], skills[2], draw.value)
        winner == IF first THEN boxer_1 ELSE boxer_2
        loser == IF first THEN boxer_2 ELSE boxer_1
        u1 == update_boxer_stats(db, winner.id, "win")
        u2 == update_boxer_stats(u1.db, loser.id, "loss")
        t1 == <<EvRandom, EvUpdate(winner.id, "win")>>
        t2 == Append(t1, EvUpdate(loser.id, "loss"))
    IN IF u1.err # NoError
       THEN FightResult(u1.err, NoName, u1.db, rg, t1, skills, draw.value)
       ELSE IF u2.err # NoError
       THEN FightResult(u2.err, NoName, u2.db, rg, t2, skills, draw.value)
       ELSE FightResult(NoError, winner.name, u2.db, clear_ring(rg),
                        Append(t2, EvClear), skills, draw.value)

\* fight: the length check, the two skills, the draw, the choice, the two
\* stats updates, the clearing of the ring.  An exception ends it where it
\* is raised, with what was done before it left in place.
fight_mut_both_win(db, rg, draw) ==
    IF Len(rg) < 2
    THEN FightResult(InsufficientParticipants, NoName, db, rg, <<>>, <<>>, -1)
    ELSE
    LET boxer_1 == get_boxers(rg)[1]
        boxer_2 == get_boxers(rg)[2]
        skills == <<get_fighting_skill(boxer_1), get_fighting_skill(boxer_2)>>
    IN
    IF draw.err # NoError
    THEN FightResult(draw.err, NoName, db, rg, <<EvRandom>>, skills, -1)
    ELSE
    LET first == boxer_1_wins(skills[1], skills[2], draw.value)
        winner == IF first THEN boxer_1 ELSE boxer_2
        loser == IF first THEN boxer_2 ELSE boxer_1
        u1 == update_boxer_stats(db, winner.id, "win")
        u2 == update_boxer_stats(u1.db, loser.id, "win")
        t1 == <<EvRandom, EvUpdate(winner.id, "win")>>
        t2 == Append(t1, EvUpdate(loser.id, "loss"))
    IN IF u1.err # NoError
       THEN FightResult(u1.err, NoName, u1.db, rg, t1, skills, draw.value)
       ELSE IF u2.err # NoError
       THEN FightResult(u2.err, NoName, u2.db, rg, t2, skills, draw.value)
       ELSE FightResult(NoError, winner.name, u2.db, clear_ring(rg),
                        Append(t2, EvClear), skills, draw.value)

fight(db, rg, draw) ==
    IF Len(rg) < 2
    THEN FightResult(InsufficientParticipants, NoName, db, rg, <<>>, <<>>, -1)
    ELSE
    LET boxer_1 == get_boxers(rg)[1]
        boxer_2 == get_boxers(rg)[2]
        skills == <<get_fighting_skill(boxer_1), get_fighting_skill(boxer_2)>>
    IN
    IF draw.err # NoError
    THEN FightResult(draw.err, NoName, db, rg, <<EvRandom>>, skills, -1)
    ELSE
    LET first == boxer_1_wins(skills[1], skills[2], draw.value)
        winner == IF first THEN boxer_1 ELSE boxer_2
        loser == IF first THEN boxer_2 ELSE boxer_1
        u1 == update_boxer_stats(db, winner.id, "win")
        u2 == update_boxer_stats(u1.db, loser.id, "loss")
        t1 == <<EvRandom, EvUpdate(winner.id, "win")>>
        t2 == Append(t1, EvUpdate(loser.id, "loss"))
    IN IF u1.err # NoError
       THEN FightResult(u1.err, NoName, u1.db, rg, t1, skills, draw.value)
       ELSE IF u2.err # NoError
       THEN FightResult(u2.err, NoName, u2.db, rg, t2, skills, draw.value)
       ELSE FightResult(NoError, winner.name, u2.db, clear_ring(rg),
                        Append(t2, EvClear), skills, draw.value)

(***************************************************************************)
(* The state machine.  last is what the most recent call was given and     *)
(* what it did: its arguments, the exception it raised (or NoError), the   *)
(* name or the list it returned, the calls it made to its collaborators in *)
(* order, the two skills it computed and the draw it got.                  *)
(***************************************************************************)
NoArgs ==
    [name |-> NoName, weight |-> 0, height |-> 0, reach |-> 0, age |-> 0,
     id |-> 0, result |-> "-", sort_by |-> "-"]

Call(op, args, err, ret, trace, skills, r) ==
    [op |-> op, args |-> args, err |-> err, ret |-> ret, trace |-> trace,
     skills |-> skills, r |-> r, returned |-> <<>>]

Plain(op, args, err) == Call(op, args, err, NoName, <<>>, <<>>, -1)

\* A call that returns a list.
Returning(op, args, err, list) ==
    [Plain(op, args, err) EXCEPT !.returned = list]

\* No row's fight count passes the bound.
WithinBounds(db) == \A i \in DOMAIN db : db[i].fights <= MaxFights

\* The boxers a caller can hold: those read from the table, and a value
\* that is not a Boxer.
Enterable(db) == {get_boxer_by_id(db, i) : i \in DOMAIN db} \cup {NotABoxer}

Init ==
    /\ boxers = EmptyTable
    /\ ring = EmptyRing
    /\ last = Plain("init", NoArgs, NoError)

CreateBoxerFrom(names, weights, heights, reaches, ages) ==
    \E name \in names, weight \in weights, height \in heights,
       reach \in reaches, age \in ages, new_id \in Ids :
        LET res == create_boxer(boxers, name, weight, height, reach, age, new_id)
            args == [NoArgs EXCEPT !.name = name, !.weight = weight,
                                   !.height = height, !.reach = reach,
                                   !.age = age]
        IN /\ res.err = NoError => new_id \in FreshIds(boxers)
           /\ boxers' = res.db
           /\ last' = Plain("create_boxer", args, res.err)
           /\ UNCHANGED ring

CreateBoxer == CreateBoxerFrom(Names, Weights, Heights, Reaches, Ages)

DeleteBoxer ==
    \E boxer_id \in Ids :
        LET res == delete_boxer(boxers, boxer_id) IN
        /\ boxers' = res.db
        /\ last' = Plain("delete_boxer", [NoArgs EXCEPT !.id = boxer_id], res.err)
        /\ UNCHANGED ring

UpdateBoxerStats ==
    \E boxer_id \in Ids, result \in Results :
        LET res == update_boxer_stats(boxers, boxer_id, result) IN
        /\ WithinBounds(res.db)
        /\ boxers' = res.db
        /\ last' = Plain("update_boxer_stats",
                         [NoArgs EXCEPT !.id = boxer_id, !.result = result],
                         res.err)
        /\ UNCHANGED ring

EnterRing ==
    \E boxer \in Enterable(boxers) :
        LET res == enter_ring(ring, boxer) IN
        /\ ring' = res.ring
        /\ last' = Plain("enter_ring",
                         [NoArgs EXCEPT !.id = boxer.id, !.name = boxer.name],
                         res.err)
        /\ UNCHANGED boxers

ClearRing ==
    /\ ring' = clear_ring(ring)
    /\ last' = Plain("clear_ring", NoArgs, NoError)
    /\ UNCHANGED boxers

Fight ==
    \E draw \in RandomOutcomes :
        LET res == fight(boxers, ring, draw) IN
        /\ WithinBounds(res.db)
        /\ boxers' = res.db
        /\ ring' = res.ring
        /\ last' = Call("fight", NoArgs, res.err, res.ret, res.trace,
                        res.skills, res.r)

Next ==
    \/ CreateBoxer
    \/ DeleteBoxer
    \/ UpdateBoxerStats
    \/ EnterRing
    \/ ClearRing
    \/ Fight

Spec == Init /\ [][Next]_vars

(***************************************************************************)
(* create_boxer and delete_boxer alone, with create_boxer given every      *)
(* combination of valid and invalid fields.                                *)
(***************************************************************************)
CreateBoxerEdge ==
    CreateBoxerFrom(EdgeNames, EdgeWeights, EdgeHeights, EdgeReaches, EdgeAges)

NextCreate ==
    \/ CreateBoxerEdge
    \/ DeleteBoxer

SpecCreate == Init /\ [][NextCreate]_vars

(***************************************************************************)
(* fight alone, on a ring a caller filled with two Boxer values of its own *)
(* making (as the tests of the ring do), the rows 1 and 2 being persisted. *)
(***************************************************************************)
SampleBoxers ==
    {Boxer(id, name, 125, 70, reach, age) :
        id \in {1, 2}, name \in {"", "Al"}, reach \in {50, 72, 100},
        age \in {20, 30, 38}}

SampleTable ==
    Insert(Insert(EmptyTable, 1, Row("Al", 125, 70, 75, 30)),
           2, Row("Bo", 125, 70, 75, 30))

InitFight ==
    /\ boxers = SampleTable
    /\ ring \in {<<b1, b2>> : b1 \in SampleBoxers, b2 \in SampleBoxers}
    /\ last = Plain("init", NoArgs, NoError)

NextFight == Fight

SpecFight == InitFight /\ [][NextFight]_vars

(***************************************************************************)
(* Properties.                                                             *)
(***************************************************************************)
IsBoxerArg(args) == args.id \in Ids

\* The arguments pass the four checks of create_boxer.
PassesChecks(a) ==
    /\ a.weight >= 125
    /\ a.height > 0
    /\ a.reach > 0
    /\ 18 <= a.age /\ a.age <= 40

\* C1: whatever enter, fight and clear calls were made, failed ones
\* included, the ring holds 0, 1 or 2 boxers.
C1_RingHoldsAtMostTwo == Len(ring) \in {0, 1, 2}

C1_Witness ==
    /\ Len(ring) = 2
    /\ last.op = "enter_ring"
    /\ last.err = NoError

\* C2: entering a boxer into a ring that holds 2 boxers fails with "Ring is
\* full", and the ring's occupants and their order stay as they were.
C2_EnterFullRingFails ==
    [][(Len(ring) = 2 /\ last'.op = "enter_ring" /\ IsBoxerArg(last'.args))
        => (last'.err = Full /\ ring' = ring)]_vars

C2_Witness ==
    /\ Len(ring) = 2
    /\ last.op = "enter_ring"
    /\ last.err = Full
    /\ IsBoxerArg(last.args)

\* C3: a fight on a ring of 0 or 1 boxers fails with "There must be two
\* boxers", draws no random number, updates no stats, leaves the ring as
\* it was.
C3_FightNeedsTwo ==
    [][(Len(ring) < 2 /\ last'.op = "fight")
        => /\ last'.err = InsufficientParticipants
           /\ last'.trace = <<>>
           /\ last'.r = -1
           /\ boxers' = boxers
           /\ ring' = ring]_vars

C3_Witness ==
    /\ Len(ring) = 1
    /\ last.op = "fight"
    /\ last.err = InsufficientParticipants

\* C4: a fight that returns leaves the ring empty; a ring gains occupants
\* only one at a time and only by an enter_ring call, so a fight called
\* again before two boxers entered fails with "There must be two boxers".
C4_RingEmptyAfterFight ==
    [][/\ (last'.op = "fight" /\ last'.err = NoError) => ring' = EmptyRing
       /\ Len(ring') > Len(ring)
            => (last'.op = "enter_ring" /\ Len(ring') = Len(ring) + 1)
       /\ (last.op = "fight" /\ last.err = NoError /\ last'.op = "fight")
            => last'.err = InsufficientParticipants
       /\ (last.op = "fight" /\ last.err = NoError /\ last'.op = "enter_ring")
            => Len(ring') <= 1]_vars

C4_Witness ==
    /\ last.op = "fight"
    /\ last.err = NoError
    /\ last.ret # NoName
    /\ ring = EmptyRing

\* C5: with b1, b2 the occupants in entry order, p the logistic transform
\* of the absolute gap of their skills and r the draw, a fight that returns
\* gave the win to b1 and returned b1's name if r < p, and gave the win to
\* b2 and returned b2's name otherwise; with skills 10 and 5 a draw of 0.8
\* makes b1 the winner and a draw of 0.999 makes b2 the winner.
C5_WinnerByDraw ==
    [][(last'.op = "fight" /\ last'.err = NoError)
        => LET b1 == ring[1]
               b2 == ring[2]
               s1 == get_fighting_skill(b1)
               s2 == get_fighting_skill(b2)
               p == normalized_delta(Abs(s1 - s2))
               r == last'.r
               won(b) == /\ last'.trace[2] = EvUpdate(b.id, "win")
                         /\ last'.ret = b.name
           IN /\ r < p => won(b1)
              /\ ~(r < p) => won(b2)
              /\ (s1 = 100 /\ s2 = 50 /\ r = 800) => won(b1)
              /\ (s1 = 100 /\ s2 = 50 /\ r = 999) => won(b2)]_vars

C5_Witness ==
    /\ last.op = "fight"
    /\ last.err = NoError
    /\ last.skills = <<100, 50>>
    /\ last.r = 999
    /\ last.ret = ""
    /\ last.trace[2].result = "win"

\* C6: a fight that returns made exactly these calls, in this order: the
\* draw, update_boxer_stats(winner.id, 'win'), update_boxer_stats(loser.id,
\* 'loss'), the clearing of the ring; the name it returned is the name of
\* the boxer that got the win.
C6_WinThenLoss ==
    [][(last'.op = "fight" /\ last'.err = NoError)
        => \E w \in {1, 2} :
            LET winner == ring[w]
                loser == ring[3 - w]
            IN /\ last'.trace = <<EvRandom, EvUpdate(winner.id, "win"),
                                  EvUpdate(loser.id, "loss"), EvClear>>
               /\ last'.ret = winner.name]_vars

C6_Witness ==
    /\ last.op = "fight"
    /\ last.err = NoError
    /\ Len(last.trace) = 4
    /\ last.trace[2].result = "win"
    /\ last.trace[3].result = "loss"
    /\ last.trace[2].id # last.trace[3].id

\* The counters of every row but the row of id are as they were, and so
\* are the other fields of every row and the set of rows.
OnlyCountersOf(id) ==
    /\ DOMAIN boxers' = DOMAIN boxers
    /\ \A j \in DOMAIN boxers :
        /\ j # id => boxers'[j] = boxers[j]
        /\ [boxers'[j] EXCEPT !.fights = 0, !.wins = 0]
             = [boxers[j] EXCEPT !.fights = 0, !.wins = 0]

\* C7: for a persisted id, update_boxer_stats(id, 'win') returns and adds 1
\* to that boxer's fights and 1 to its wins; update_boxer_stats(id, 'loss')
\* returns, adds 1 to its fights and leaves its wins; no other boxer's
\* counters change.
C7_StatsUpdate ==
    [][(/\ last'.op = "update_boxer_stats"
        /\ last'.args.id \in DOMAIN boxers
        /\ last'.args.result \in {"win", "loss"})
        => LET id == last'.args.id
               won == IF last'.args.result = "win" THEN 1 ELSE 0
           IN /\ last'.err = NoError
              /\ OnlyCountersOf(id)
              /\ boxers'[id].fights = boxers[id].fights + 1
              /\ boxers'[id].wins = boxers[id].wins + won]_vars

C7_Witness ==
    /\ last.op = "update_boxer_stats"
    /\ last.err = NoError
    /\ last.args.result = "loss"
    /\ Cardinality(DOMAIN boxers) = 2
    /\ boxers[last.args.id].fights = 1
    /\ boxers[last.args.id].wins = 0

\* C8: update_boxer_stats fails with "not found" when the id is not
\* persisted (and the result is 'win' or 'loss'), fails with "Invalid
\* result" when the result is neither 'win' nor 'loss' (and the id is
\* persisted), and fails with one of the two when both are the case; in
\* all these cases the table is as it was.
C8_StatsUpdateFails ==
    [][last'.op = "update_boxer_stats"
        => LET absent == last'.args.id \notin DOMAIN boxers
               invalid == last'.args.result \notin {"win", "loss"}
           IN /\ (absent /\ ~invalid) => last'.err = NotFound
              /\ (invalid /\ ~absent) => last'.err = InvalidResult
              /\ (absent /\ invalid) => last'.err \in {NotFound, InvalidResult}
              /\ (absent \/ invalid) => boxers' = boxers]_vars

C8_Witness ==
    /\ last.op = "update_boxer_stats"
    /\ last.err = NotFound
    /\ last.args.id \notin DOMAIN boxers
    /\ boxers # EmptyTable

\* C9: create_boxer checks weight >= 125, height > 0, reach > 0 and
\* 18 <= age <= 40 in this order and fails with the error of the first
\* check that fails, whatever the later fields are; a call that fails a
\* check inserts nothing.
C9_ValidationOrder ==
    [][last'.op = "create_boxer"
        => LET a == last'.args
               weight_ok == a.weight >= 125
               height_ok == a.height > 0
               reach_ok == a.reach > 0
               age_ok == 18 <= a.age /\ a.age <= 40
           IN /\ ~weight_ok => last'.err = InvalidWeight
              /\ (weight_ok /\ ~height_ok) => last'.err = InvalidHeight
              /\ (weight_ok /\ height_ok /\ ~reach_ok) => last'.err = InvalidReach
              /\ (weight_ok /\ height_ok /\ reach_ok /\ ~age_ok)
                    => last'.err = InvalidAge
              /\ (weight_ok /\ height_ok /\ reach_ok /\ age_ok)
                    => last'.err \in {NoError, AlreadyExists}
              /\ ~(weight_ok /\ height_ok /\ reach_ok /\ age_ok)
                    => boxers' = boxers]_vars

C9_Witness ==
    /\ last.op = "create_boxer"
    /\ last.err = InvalidHeight
    /\ last.args.reach <= 0
    /\ last.args.age > 40
    /\ boxers # EmptyTable

\* C10: create_boxer with a name that is persisted inserts nothing and
\* fails, with "already exists" when the other fields pass the checks; so
\* no two persisted boxers have the same name.
C10_NamesUnique ==
    [][/\ \A i, j \in DOMAIN boxers' :
            boxers'[i].name = boxers'[j].name => i = j
       /\ (last'.op = "create_boxer" /\ NameTaken(boxers, last'.args.name))
            => /\ boxers' = boxers
               /\ last'.err # NoError
               /\ PassesChecks(last'.args) => last'.err = AlreadyExists]_vars

C10_Witness ==
    /\ last.op = "create_boxer"
    /\ last.err = AlreadyExists
    /\ Cardinality(DOMAIN boxers) = 2
    /\ \E i \in DOMAIN boxers : boxers[i].name = last.args.name

(***************************************************************************)
(* get_weight_class alone, on weights from below the lightest class to     *)
(* above the floor of the heaviest.                                        *)
(***************************************************************************)
ClassifyWeights == 100..250

GetWeightClass ==
    \E weight \in ClassifyWeights :
        LET weight_class == get_weight_class(weight)
            raised == weight_class = InvalidWeight
        IN /\ last' = Call("get_weight_class", [NoArgs EXCEPT !.weight = weight],
                           IF raised THEN InvalidWeight ELSE NoError,
                           IF raised THEN NoName ELSE weight_class,
                           <<>>, <<>>, -1)
           /\ UNCHANGED <<boxers, ring>>

NextClassify == GetWeightClass

SpecClassify == Init /\ [][NextClassify]_vars

\* C11: get_weight_class(w) is HEAVYWEIGHT for w >= 203, MIDDLEWEIGHT for
\* 166 <= w < 203, LIGHTWEIGHT for 133 <= w < 166, FEATHERWEIGHT for
\* 125 <= w < 133 and raises "Invalid weight" for w < 125.
C11_WeightClasses ==
    last.op = "get_weight_class"
        => LET w == last.args.weight
               is(class) == last.err = NoError /\ last.ret = class
           IN /\ w >= 203 => is("HEAVYWEIGHT")
              /\ (166 <= w /\ w < 203) => is("MIDDLEWEIGHT")
              /\ (133 <= w /\ w < 166) => is("LIGHTWEIGHT")
              /\ (125 <= w /\ w < 133) => is("FEATHERWEIGHT")
              /\ w < 125 => (last.err = InvalidWeight /\ last.ret = NoName)
              /\ w = 124 => last.err = InvalidWeight
              /\ w = 125 => is("FEATHERWEIGHT")
              /\ w = 202 => is("MIDDLEWEIGHT")
              /\ w = 203 => is("HEAVYWEIGHT")

C11_Witness ==
    /\ last.op = "get_weight_class"
    /\ last.args.weight = 203
    /\ last.ret = "HEAVYWEIGHT"

\* C12: clear_ring never raises and leaves the ring empty whether it held
\* 0, 1 or 2 boxers; on an empty ring it changes nothing, and a second
\* clear_ring right after a first changes nothing more.
C12_ClearEmpties ==
    [][/\ last'.op = "clear_ring"
            => (last'.err = NoError /\ ring' = EmptyRing /\ boxers' = boxers)
       /\ (last'.op = "clear_ring" /\ ring = EmptyRing) => ring' = ring
       /\ (last.op = "clear_ring" /\ last'.op = "clear_ring")
            => (ring' = ring /\ boxers' = boxers /\ last' = last)]_vars

C12_Witness ==
    /\ last.op = "clear_ring"
    /\ last.err = NoError
    /\ ring = EmptyRing
    /\ Cardinality(DOMAIN boxers) = 2

\* The winner and the loser the draw r picks between b1 and b2.
FirstWins(b1, b2, r) ==
    r < normalized_delta(Abs(get_fighting_skill(b1) - get_fighting_skill(b2)))

DrawFailed(err) == err \in {SourceUnavailable, InvalidSample}

\* C13: when one of the two stats updates of a fight fails (the row of the
\* winner or of the loser is gone), the fight raises that error and the
\* ring holds the same two boxers in the same order as before the call.
C13_RingKeptOnFailedUpdate ==
    [][(/\ Len(ring) = 2
        /\ last'.op = "fight"
        /\ ~DrawFailed(last'.err)
        /\ \E k \in {1, 2} : ring[k].id \notin DOMAIN boxers)
        => (last'.err = NotFound /\ last'.ret = NoName /\ ring' = ring)]_vars

C13_Witness ==
    /\ last.op = "fight"
    /\ last.err = NotFound
    /\ Len(last.trace) = 2
    /\ Len(ring) = 2
    /\ ring[1].id # ring[2].id

\* C14: when the winner's row is persisted and the loser's row is gone, the
\* fight fails with "not found" after the winner's update: the winner has 1
\* more fight and 1 more win, nothing else in the table has changed (the
\* loser has no row still), and the ring is as it was.
C14_NoRollback ==
    [][(/\ Len(ring) = 2
        /\ last'.op = "fight"
        /\ ~DrawFailed(last'.err))
        => LET first == FirstWins(ring[1], ring[2], last'.r)
               winner == IF first THEN ring[1] ELSE ring[2]
               loser == IF first THEN ring[2] ELSE ring[1]
           IN (winner.id \in DOMAIN boxers /\ loser.id \notin DOMAIN boxers)
                => /\ last'.err = NotFound
                   /\ boxers'[winner.id].fights = boxers[winner.id].fights + 1
                   /\ boxers'[winner.id].wins = boxers[winner.id].wins + 1
                   /\ OnlyCountersOf(winner.id)
                   /\ ring' = ring]_vars

C14_Witness ==
    /\ last.op = "fight"
    /\ last.err = NotFound
    /\ Len(last.trace) = 3
    /\ last.trace[2].id \in DOMAIN boxers
    /\ last.trace[3].id \notin DOMAIN boxers
    /\ boxers[last.trace[2].id].wins = 1

\* C15: a fight on a ring of two boxers asks the random source exactly
\* once, first of all its calls; when the source fails, the fight raises
\* the source's error, no stats are updated and the ring holds both boxers.
C15_OneDraw ==
    [][(Len(ring) = 2 /\ last'.op = "fight")
        => /\ Cardinality({i \in DOMAIN last'.trace : last'.trace[i] = EvRandom}) = 1
           /\ last'.trace[1] = EvRandom
           /\ DrawFailed(last'.err)
                => /\ last'.trace = <<EvRandom>>
                   /\ last'.ret = NoName
                   /\ boxers' = boxers
                   /\ ring' = ring]_vars

C15_Witness ==
    /\ last.op = "fight"
    /\ last.err = SourceUnavailable
    /\ last.trace = <<EvRandom>>
    /\ Len(ring) = 2

\* C16: the ring never holds the same boxer in both slots: whatever enter,
\* fight and clear calls were made, two occupants have different ids.
C16_NoDuplicateInRing ==
    Len(ring) = 2 => ring[1].id # ring[2].id

(***************************************************************************)
(* get_boxers and its caller.  get_boxers returns self.ring, the list      *)
(* object of the ring and no copy of it: the list the caller holds and     *)
(* the ring are one object, so what the caller does to the list is done to *)
(* the ring.                                                               *)
(***************************************************************************)
GetBoxers ==
    /\ last' = Returning("get_boxers", NoArgs, NoError, get_boxers(ring))
    /\ UNCHANGED <<boxers, ring>>

\* The caller holds the list from the call just made.
HoldsReturned == last.op \in {"get_boxers", "list.append", "list.pop", "list.reverse"}

Reversed(list) == [i \in 1..Len(list) |-> list[Len(list) + 1 - i]]

CallerChangesReturned ==
    /\ HoldsReturned
    /\ \/ \E boxer \in Enterable(boxers) :
            /\ Len(ring) < MaxHeld
            /\ ring' = Append(ring, boxer)
            /\ last' = Returning("list.append", NoArgs, NoError, ring')
       \/ /\ ring # EmptyRing
          /\ ring' = SubSeq(ring, 1, Len(ring) - 1)
          /\ last' = Returning("list.pop", NoArgs, NoError, ring')
       \/ /\ ring' = Reversed(ring)
          /\ last' = Returning("list.reverse", NoArgs, NoError, ring')
    /\ UNCHANGED boxers

NextView ==
    \/ CreateBoxer
    \/ EnterRing
    \/ ClearRing
    \/ GetBoxers
    \/ CallerChangesReturned

SpecView == Init /\ [][NextView]_vars

ByCaller(op) == op \in {"list.append", "list.pop", "list.reverse"}

\* C17 as stated: get_boxers returns the occupants in entry order, the call
\* changes nothing, and nothing the caller does with the list it got
\* changes the occupants of the ring or their order.
C17_ReadOnlyView ==
    [][/\ last'.op = "get_boxers"
            => (last'.returned = ring /\ ring' = ring /\ boxers' = boxers)
       /\ ByCaller(last'.op) => ring' = ring]_vars

\* C17 as amended: get_boxers returns the occupants in entry order (the
\* boxer entered last is last) and the call changes nothing; the list it
\* returns is the ring's own list, so every change the caller makes to
\* that list is a change of the ring.
C17_ReturnsTheRing ==
    [][/\ last'.op = "get_boxers"
            => /\ last'.err = NoError
               /\ last'.returned = ring
               /\ ring' = ring
               /\ boxers' = boxers
               /\ (last.op = "enter_ring" /\ last.err = NoError)
                    => last'.returned[Len(ring)].id = last.args.id
       /\ ByCaller(last'.op) => (ring' = last'.returned /\ boxers' = boxers)]_vars

C17_Witness ==
    /\ last.op = "list.reverse"
    /\ Len(ring) = 2
    /\ ring[1].id > ring[2].id
    /\ last.returned = ring

(***************************************************************************)
(* get_leaderboard alone, on tables whose rows have the counters some      *)
(* update_boxer_stats calls left them with.                                *)
(***************************************************************************)
SortKeys == {"wins", "win_pct", "losses"}

\* <<fights, wins>> of a row.
BoardCounters == {<<0, 0>>, <<1, 0>>, <<1, 1>>, <<2, 1>>, <<3, 2>>}

BoardName(id) == <<"Al", "Bo", "Cy", "Di", "Ed">>[id]

BoardTables ==
    UNION {{[i \in present |->
                [Row(BoardName(i), 125, 70, 75, 30)
                    EXCEPT !.fights = cs[i][1], !.wins = cs[i][2]]]
            : cs \in [present -> BoardCounters]}
           : present \in SUBSET Ids}

InitBoard ==
    /\ boxers \in BoardTables
    /\ ring = EmptyRing
    /\ last = Plain("init", NoArgs, NoError)

GetLeaderboard ==
    \E sort_by \in SortKeys :
        \E order \in (IF sort_by \in {"win_pct", "wins"}
                      THEN QueryOrders(boxers, sort_by) ELSE {<<>>}) :
            LET res == get_leaderboard(boxers, sort_by, order)
            IN /\ last' = Returning("get_leaderboard",
                                    [NoArgs EXCEPT !.sort_by = sort_by],
                                    res.err, res.leaderboard)
               /\ UNCHANGED <<boxers, ring>>

NextBoard == GetLeaderboard

SpecBoard == InitBoard /\ [][NextBoard]_vars

\* The ids of the returned entries, in order.
ReturnedIds == [k \in 1..Len(last.returned) |-> last.returned[k].id]

\* C18: get_leaderboard returns exactly the boxers with at least one fight,
\* each once and with its own counters, in non-increasing order of wins
\* (sort_by "wins") or of wins / fights (sort_by "win_pct"); any other
\* sort_by fails with the invalid-sort-key error and returns nothing.
C18_Leaderboard ==
    last.op = "get_leaderboard" =>
        IF last.args.sort_by \in {"wins", "win_pct"}
        THEN /\ last.err = NoError
             /\ {ReturnedIds[k] : k \in DOMAIN ReturnedIds}
                    = {i \in DOMAIN boxers : boxers[i].fights >= 1}
             /\ \A k, l \in DOMAIN ReturnedIds :
                    ReturnedIds[k] = ReturnedIds[l] => k = l
             /\ \A k \in DOMAIN last.returned :
                    LET e == last.returned[k]
                    IN /\ e.fights = boxers[e.id].fights
                       /\ e.wins = boxers[e.id].wins
                       /\ e.name = boxers[e.id].name
             /\ \A k, l \in DOMAIN last.returned :
                    k < l =>
                        LET a == last.returned[k]
                            b == last.returned[l]
                        IN IF last.args.sort_by = "wins"
                           THEN a.wins >= b.wins
                           ELSE /\ a.wins * b.fights >= b.wins * a.fights
                                /\ a.win_pct >= b.win_pct
        ELSE /\ last.err = InvalidSortBy
             /\ last.returned = <<>>

\* Sorted by win rate where the order by wins would be the other way round.
C18_Witness ==
    /\ last.op = "get_leaderboard"
    /\ last.args.sort_by = "win_pct"
    /\ last.err = NoError
    /\ Len(last.returned) = 2
    /\ last.returned[1].wins < last.returned[2].wins

(***************************************************************************)
(* get_fighting_skill alone, on boxers made by the caller.                 *)
(***************************************************************************)
SkillNames == {"", "Al", "Boxer 1"}
SkillWeights == {125, 180}
SkillReaches == {50, 72, 75, 100}
SkillAges == {18, 24, 25, 30, 35, 36, 40}

SkillBoxers ==
    {Boxer(id, name, weight, 70, reach, age) :
        id \in Ids, name \in SkillNames, weight \in SkillWeights,
        reach \in SkillReaches, age \in SkillAges}

GetFightingSkill ==
    \E boxer \in SkillBoxers :
        /\ last' = Call("get_fighting_skill",
                        [NoArgs EXCEPT !.id = boxer.id, !.name = boxer.name,
                                       !.weight = boxer.weight,
                                       !.height = boxer.height,
                                       !.reach = boxer.reach, !.age = boxer.age],
                        NoError, NoName, <<>>, <<get_fighting_skill(boxer)>>, -1)
        /\ UNCHANGED <<boxers, ring>>

NextSkill == GetFightingSkill

SpecSkill == Init /\ [][NextSkill]_vars

\* weight * length(name) + reach / 10 + ageModifier of the arguments of the
\* last call, in tenths, with the modifier as the specification words it.
SkillByFormula ==
    10 * last.args.weight * Len(last.args.name) + last.args.reach
    + 10 * (CASE last.args.age < 25 -> -1
              [] last.args.age > 35 -> -2
              [] 25 <= last.args.age /\ last.args.age <= 35 -> 0)

IsSampleBoxer1 ==
    /\ last.args.name = "Boxer 1"
    /\ last.args.weight = 180
    /\ last.args.reach = 75
    /\ last.args.age = 30

\* C19 as stated: the skill is weight * length(name) + reach/10 +
\* ageModifier (-1 below 25, -2 above 35, 0 from 25 to 35), a function of
\* the attributes alone, and weight 180, name 'Boxer 1', reach 75, age 30
\* gives 1447.5.
C19_SkillAsStated ==
    last.op = "get_fighting_skill" =>
        /\ last.skills = <<SkillByFormula>>
        /\ IsSampleBoxer1 => last.skills = <<14475>>

\* C19 amended: the same formula, and weight 180, name 'Boxer 1' (seven
\* characters), reach 75, age 30 gives 180 * 7 + 7.5 + 0 = 1267.5.
C19_Skill ==
    last.op = "get_fighting_skill" =>
        /\ last.skills = <<SkillByFormula>>
        /\ IsSampleBoxer1 => last.skills = <<12675>>

C19_Witness ==
    /\ last.op = "get_fighting_skill"
    /\ IsSampleBoxer1
    /\ last.skills = <<12675>>

\* C20: the probability comes from the absolute gap of the skills, so it
\* is at least 0.5 for every pair; with the skills of the two slots swapped
\* the same slot wins for the same draw; and a draw below 0.5 makes the
\* boxer who entered first the winner, whichever boxer has the higher
\* skill.
C20_AbsoluteGap ==
    [][(last'.op = "fight" /\ last'.err = NoError)
        => LET b1 == ring[1]
               b2 == ring[2]
               s1 == last'.skills[1]
               s2 == last'.skills[2]
               r == last'.r
               first_won == /\ last'.trace[2] = EvUpdate(b1.id, "win")
                            /\ last'.trace[3] = EvUpdate(b2.id, "loss")
                            /\ last'.ret = b1.name
               swapped == fight(boxers, <<b2, b1>>, GoodDraw(r))
           IN /\ normalized_delta(Abs(s1 - s2)) >= 500
              /\ normalized_delta(Abs(s1 - s2)) = normalized_delta(Abs(s2 - s1))
              /\ boxer_1_wins(s1, s2, r) <=> boxer_1_wins(s2, s1, r)
              /\ b1.id # b2.id =>
                    (first_won <=> swapped.trace[2] = EvUpdate(b2.id, "win"))
              /\ r < 500 => first_won]_vars

\* The weaker boxer entered first, the draw is just below 0.5, and the
\* weaker boxer (the one with the empty name) won.
C20_Witness ==
    /\ last.op = "fight"
    /\ last.err = NoError
    /\ last.skills[1] < 1000
    /\ last.skills[2] > 1000
    /\ last.r = 499
    /\ last.ret = ""
    /\ last.trace[2].result = "win"

\* C21: every persisted boxer has 0 <= wins <= fights, in every state
\* reached from an empty table by create_boxer, delete_boxer,
\* update_boxer_stats and fight, fights that fail after the winner's update
\* included.
C21_WinsWithinFights ==
    \A i \in DOMAIN boxers :
        /\ 0 <= boxers[i].wins
        /\ boxers[i].wins <= boxers[i].fights

\* A fight has failed after the winner's update, and the table holds a
\* boxer whose every fight is a win.
C21_Witness ==
    /\ last.op = "fight"
    /\ last.err = NotFound
    /\ Len(last.trace) = 3
    /\ \E i \in DOMAIN boxers :
        boxers[i].fights >= 1 /\ boxers[i].wins = boxers[i].fights

(***************************************************************************)
(* The whole system with get_boxers, started with no boxer or with three   *)
(* boxers created and nobody in the ring, so that a fight of two leaves a  *)
(* third one aside.                                                        *)
(***************************************************************************)
FrameTable == [i \in {1, 2, 3} |-> Row(BoardName(i), 125, 70, 75, 30)]

InitFrame ==
    /\ boxers \in {EmptyTable, FrameTable}
    /\ ring = EmptyRing
    /\ last = Plain("init", NoArgs, NoError)

NextFrame ==
    \/ CreateBoxer
    \/ DeleteBoxer
    \/ UpdateBoxerStats
    \/ EnterRing
    \/ ClearRing
    \/ GetBoxers
    \/ Fight

SpecFrame == InitFrame /\ [][NextFrame]_vars

RECURSIVE SumOver(_, _)
SumOver(f, S) ==
    IF S = {} THEN 0
    ELSE LET x == CHOOSE y \in S : TRUE
         IN f[x] + SumOver(f, S \ {x})

TotalFights(db) == SumOver([i \in DOMAIN db |-> db[i].fights], DOMAIN db)
TotalWins(db) == SumOver([i \in DOMAIN db |-> db[i].wins], DOMAIN db)

\* A record without its counters.
Attributes(row) == [row EXCEPT !.fights = 0, !.wins = 0]

\* C22: a fight that returns, between two boxers with different persisted
\* ids, changes only the counters of those two (the fights of all boxers
\* together rise by 2 and the wins by 1, every other record and every
\* attribute that is not a counter stay as they were); enter_ring,
\* clear_ring and get_boxers change no persisted record; create_boxer,
\* delete_boxer and update_boxer_stats leave the ring's occupants alone.
C22_Frame ==
    [][/\ (/\ last'.op = "fight"
           /\ last'.err = NoError
           /\ ring[1].id # ring[2].id
           /\ {ring[1].id, ring[2].id} \subseteq DOMAIN boxers)
          => /\ DOMAIN boxers' = DOMAIN boxers
             /\ TotalFights(boxers') = TotalFights(boxers) + 2
             /\ TotalWins(boxers') = TotalWins(boxers) + 1
             /\ \A j \in DOMAIN boxers :
                    /\ j \notin {ring[1].id, ring[2].id} => boxers'[j] = boxers[j]
                    /\ j \in {ring[1].id, ring[2].id} =>
                            boxers'[j].fights = boxers[j].fights + 1
                    /\ Attributes(boxers'[j]) = Attributes(boxers[j])
       /\ last'.op \in {"enter_ring", "clear_ring", "get_boxers"}
          => boxers' = boxers
       /\ last'.op \in {"create_boxer", "delete_boxer", "update_boxer_stats"}
          => ring' = ring]_vars

\* Two of three persisted boxers have fought and the fight returned; the
\* third one's row is in the table.
C22_Witness ==
    /\ last.op = "fight"
    /\ last.err = NoError
    /\ last.trace[2].id # last.trace[3].id
    /\ Cardinality(DOMAIN boxers) = 3
    /\ TotalFights(boxers) >= 2
    /\ ring = EmptyRing

====
